---- MODULE Spec2Model ----
(***************************************************************************)
(* A model of the DataManagerJob operator (src/operator/handlers.py).      *)
(*                                                                         *)
(* Two kopf handlers run against the cluster's resource store:             *)
(*   create     builds a ConfigMap and a Pod for a DataManagerJob;         *)
(*   job_event  deletes a finished Pod and its ConfigMap after a delay.    *)
(* Every handler invocation runs in a slot of its own; the steps of        *)
(* different invocations interleave at the resource-store calls and at     *)
(* the pre-delete sleep.  The store, the job objects, the kubelet and the  *)
(* owner-reference garbage collector are the environment.                  *)
(***************************************************************************)
EXTENDS Integers, Sequences, FiniteSets, TLC

VARIABLES
    pods,   \* the store's Pods:       <<namespace, name>> :> Pod record
    cms,    \* the store's ConfigMaps: <<namespace, name>> :> ConfigMap record
    jobs,   \* the live DataManagerJob objects, a set of <<namespace, name>>
    je,     \* the job_event invocations: [Handlers -> invocation record]
    cr,     \* the create invocations:    [Creators -> invocation record]
    used    \* how much of each bounded kind of step the run has taken

vars == <<pods, cms, jobs, je, cr, used>>

-----------------------------------------------------------------------------
(* Bounds of the model *)

\* Pod events delivered in one run; each has a job_event invocation of
\* its own (kopf runs each in a worker thread)
NumHandlers == 2
\* DataManagerJob objects created in one run; each has a create invocation
\* of its own
NumCreators == 2
\* resource-store calls the store refuses in one run
MaxFaults == 1
\* DataManagerJob objects deleted in one run
MaxJobDeletes == 1

Handlers == 1..NumHandlers
Creators == 1..NumCreators

Names == {"a", "b"}
Namespaces == {"ns"}

-----------------------------------------------------------------------------
(* Module-level constants of handlers.py *)

POD_BASE_LABEL          == "data-manager.informaticsmatters.com"
POD_PURPOSE_LABEL       == POD_BASE_LABEL \o "/purpose"
POD_INSTANCE_LABEL      == POD_BASE_LABEL \o "/instance-id"
POD_INSTANCE_IS_JOB     == POD_BASE_LABEL \o "/instance-is-job"
POD_TASK_ID_LABEL       == POD_BASE_LABEL \o "/task-id"
POD_DEBUG_LABEL         == POD_BASE_LABEL \o "/debug"
POD_PURPOSE_LABEL_VALUE == "INSTANCE"

\* int(os.environ.get('JO_POD_PRE_DELETE_DELAY_S', '5'))
_POD_PRE_DELETE_DELAY_S == 5

-----------------------------------------------------------------------------
(* The resource store: namespaced create/delete, a status code on failure.  *)
(* A store is a function from the keys <<namespace, name>> of the objects   *)
(* it holds to those objects.                                               *)

PodPhases      == {"Pending", "Running", "Succeeded", "Failed", "Completed"}
TerminalPhases == {"Succeeded", "Failed", "Completed"}
EventTypes     == {"ADDED", "MODIFIED", "DELETED"}

\* the status an ApiException carries, 200 when the call returns normally;
\* fault is the environment's choice to refuse the call (here with a 500)
ApiDeleteStatus(store, key, fault) ==
    IF fault THEN 500
    ELSE IF key \notin DOMAIN store THEN 404
    ELSE 200

\* variant: the delete call is a delete of the collection, which removes
\* every object of the namespace
ApiDelete_Collection(store, key, fault) ==
    IF ApiDeleteStatus(store, key, fault) = 200
    THEN [k \in { j \in DOMAIN store : j[1] # key[1] } |-> store[k]]
    ELSE store

ApiDelete(store, key, fault) ==
    IF ApiDeleteStatus(store, key, fault) = 200
    THEN [k \in DOMAIN store \ {key} |-> store[k]]
    ELSE store

ApiCreateStatus(store, key, fault) ==
    IF fault THEN 500
    ELSE IF key \in DOMAIN store THEN 409
    ELSE 201

\* a create that writes over an object of the same name (an apply or a
\* replace call in the place of create_namespaced_*)
ApiCreate_Replace(store, key, body, fault) ==
    IF fault THEN store
    ELSE (key :> body) @@ store

ApiCreate(store, key, body, fault) ==
    IF ApiCreateStatus(store, key, fault) = 201
    THEN (key :> body) @@ store
    ELSE store

\* one resource-store call as an invocation records it
Call(op, kind, namespace, name, status) ==
    [op |-> op, kind |-> kind, namespace |-> namespace, name |-> name,
     status |-> status]

-----------------------------------------------------------------------------
(* job_event: the kopf.on.event handler for Pods with the purpose label     *)

NoEvent == [type |-> "none"]

IdleJobEvent ==
    [pc |-> "idle", event |-> NoEvent, calls |-> <<>>, slept |-> 0,
     outcome |-> "none"]

\* the invocation is between its first and its last statement
Running(h) == je[h].pc \in {"sleep", "delete_pod", "delete_cm"}

\* handlers that block the dispatcher itself (an async def that calls
\* time.sleep): an event waits while any earlier invocation is running
Blocked_AnyRunning(h, event) ==
    \E g \in Handlers \ {h} :
        Running(g) \/ (g < h /\ je[g].pc = "queued")

\* kopf hands the events of one object to the handler one at a time: the
\* event waits while an earlier invocation for the same Pod is running
Blocked(h, event) ==
    \E g \in Handlers \ {h} :
        /\ Running(g) \/ (g < h /\ je[g].pc = "queued")
        /\ je[g].event.namespace = event.namespace
        /\ je[g].event.name = event.name

\* job_event without the test of the event's type (lines 317-320 left out)
JobEventFilter_AnyType(r) ==
    IF r.event.phase \notin TerminalPhases
    THEN [r EXCEPT !.pc = "returned", !.outcome = "ok"]
    ELSE IF POD_DEBUG_LABEL \in DOMAIN r.event.labels
    THEN [r EXCEPT !.pc = "returned", !.outcome = "ok"]
    ELSE IF _POD_PRE_DELETE_DELAY_S > 0
    THEN [r EXCEPT !.pc = "sleep"]
    ELSE [r EXCEPT !.pc = "delete_pod"]

\* job_event with 'Failed' missing from the phases of line 327
JobEventFilter_FailedKept(r) ==
    IF r.event.type # "MODIFIED"
    THEN [r EXCEPT !.pc = "returned", !.outcome = "ok"]
    ELSE IF r.event.phase \notin TerminalPhases \ {"Failed"}
    THEN [r EXCEPT !.pc = "returned", !.outcome = "ok"]
    ELSE IF POD_DEBUG_LABEL \in DOMAIN r.event.labels
    THEN [r EXCEPT !.pc = "returned", !.outcome = "ok"]
    ELSE IF _POD_PRE_DELETE_DELAY_S > 0
    THEN [r EXCEPT !.pc = "sleep"]
    ELSE [r EXCEPT !.pc = "delete_pod"]

\* job_event without the sleep (lines 342-346 left out)
JobEventFilter_NoSleep(r) ==
    IF r.event.type # "MODIFIED"
    THEN [r EXCEPT !.pc = "returned", !.outcome = "ok"]
    ELSE IF r.event.phase \notin TerminalPhases
    THEN [r EXCEPT !.pc = "returned", !.outcome = "ok"]
    ELSE IF POD_DEBUG_LABEL \in DOMAIN r.event.labels
    THEN [r EXCEPT !.pc = "returned", !.outcome = "ok"]
    ELSE [r EXCEPT !.pc = "delete_pod"]

\* lines 317-346: the filters, up to the point where the sleep begins
JobEventFilter(r) ==
    IF r.event.type # "MODIFIED"
    THEN [r EXCEPT !.pc = "returned", !.outcome = "ok"]
    ELSE IF r.event.phase \notin TerminalPhases
    THEN [r EXCEPT !.pc = "returned", !.outcome = "ok"]
    ELSE IF POD_DEBUG_LABEL \in DOMAIN r.event.labels
    THEN [r EXCEPT !.pc = "returned", !.outcome = "ok"]
    ELSE IF _POD_PRE_DELETE_DELAY_S > 0
    THEN [r EXCEPT !.pc = "sleep"]
    ELSE [r EXCEPT !.pc = "delete_pod"]

\* the watch stream of Pods selected by the purpose label delivers an event
\* for the Pod at key, as the store holds it now; kopf calls job_event with
\* it at once unless the Pod's earlier event is still being handled.
\* Invocations are numbered in the order of their events.
Notify(h, type, key) ==
    /\ je[h].pc = "idle"
    /\ \A g \in Handlers : g < h => je[g].pc # "idle"
    /\ key \in DOMAIN pods
    /\ pods[key].labels[POD_PURPOSE_LABEL] = POD_PURPOSE_LABEL_VALUE
    /\ LET event  == [type      |-> type,
                      namespace |-> key[1],
                      name      |-> key[2],
                      labels    |-> pods[key].labels,
                      phase     |-> pods[key].phase]
           queued == [IdleJobEvent EXCEPT !.pc = "queued", !.event = event]
       IN je' = [je EXCEPT ![h] = IF Blocked(h, event) THEN queued
                                  ELSE JobEventFilter(queued)]
    /\ UNCHANGED <<pods, cms, jobs, cr, used>>

\* the earlier invocation for the Pod has returned: kopf calls job_event
\* with the waiting event
JobEventEnter(h) ==
    /\ je[h].pc = "queued"
    /\ ~Blocked(h, je[h].event)
    /\ je' = [je EXCEPT ![h] = JobEventFilter(@)]
    /\ UNCHANGED <<pods, cms, jobs, cr, used>>

\* line 346: time.sleep(_POD_PRE_DELETE_DELAY_S) returns
JobEventSleep(h) ==
    /\ je[h].pc = "sleep"
    /\ je' = [je EXCEPT ![h].pc = "delete_pod",
                        ![h].slept = _POD_PRE_DELETE_DELAY_S]
    /\ UNCHANGED <<pods, cms, jobs, cr, used>>

\* the Pod delete without the except clause of lines 354-358: an
\* ApiException leaves the handler
JobEventDeletePod_Raise(h, fault) ==
    /\ je[h].pc = "delete_pod"
    /\ LET e      == je[h].event
           key    == <<e.namespace, e.name>>
           status == ApiDeleteStatus(pods, key, fault)
       IN /\ pods' = ApiDelete(pods, key, fault)
          /\ je' = [je EXCEPT
                      ![h].pc = IF status = 200 THEN "delete_cm" ELSE "returned",
                      ![h].outcome = IF status = 200 THEN @ ELSE "raised",
                      ![h].calls = Append(@, Call("delete", "Pod", e.namespace,
                                     e.name, status))]
    /\ UNCHANGED <<cms, jobs, cr>>
    /\ fault => used.faults < MaxFaults
    /\ used' = [used EXCEPT !.faults = IF fault THEN @ + 1 ELSE @]

\* lines 348-358: delete the Pod by name and namespace; an ApiException
\* is logged and swallowed
JobEventDeletePod(h, fault) ==
    /\ je[h].pc = "delete_pod"
    /\ LET e   == je[h].event
           key == <<e.namespace, e.name>>
       IN /\ pods' = ApiDelete(pods, key, fault)
          /\ je' = [je EXCEPT
                      ![h].pc = "delete_cm",
                      ![h].calls = Append(@, Call("delete", "Pod", e.namespace,
                                     e.name, ApiDeleteStatus(pods, key, fault)))]
    /\ UNCHANGED <<cms, jobs, cr>>
    /\ fault => used.faults < MaxFaults
    /\ used' = [used EXCEPT !.faults = IF fault THEN @ + 1 ELSE @]

\* the ConfigMap delete with the bare instance-id label for a name (line
\* 362 without the 'nf-config-' prefix)
JobEventDeleteConfigMap_BareName(h, fault) ==
    /\ je[h].pc = "delete_cm"
    /\ LET e == je[h].event IN
       IF POD_INSTANCE_LABEL \notin DOMAIN e.labels
       THEN /\ je' = [je EXCEPT ![h].pc = "returned", ![h].outcome = "raised"]
            /\ cms' = cms
       ELSE LET cm_name == e.labels[POD_INSTANCE_LABEL]
                key     == <<e.namespace, cm_name>>
            IN /\ cms' = ApiDelete(cms, key, fault)
               /\ je' = [je EXCEPT
                           ![h].pc = "returned",
                           ![h].outcome = "ok",
                           ![h].calls = Append(@, Call("delete", "ConfigMap",
                                          e.namespace, cm_name,
                                          ApiDeleteStatus(cms, key, fault)))]
    /\ UNCHANGED <<pods, jobs, cr>>
    /\ fault => used.faults < MaxFaults
    /\ used' = [used EXCEPT !.faults = IF fault THEN @ + 1 ELSE @]

\* the ConfigMap delete without the except clause of lines 365-369: an
\* ApiException leaves the handler
JobEventDeleteConfigMap_Raise(h, fault) ==
    /\ je[h].pc = "delete_cm"
    /\ LET e == je[h].event IN
       IF POD_INSTANCE_LABEL \notin DOMAIN e.labels
       THEN /\ je' = [je EXCEPT ![h].pc = "returned", ![h].outcome = "raised"]
            /\ cms' = cms
       ELSE LET cm_name == "nf-config-" \o e.labels[POD_INSTANCE_LABEL]
                key     == <<e.namespace, cm_name>>
                status  == ApiDeleteStatus(cms, key, fault)
            IN /\ cms' = ApiDelete(cms, key, fault)
               /\ je' = [je EXCEPT
                           ![h].pc = "returned",
                           ![h].outcome = IF status = 200 THEN "ok"
                                          ELSE "raised",
                           ![h].calls = Append(@, Call("delete", "ConfigMap",
                                          e.namespace, cm_name, status))]
    /\ UNCHANGED <<pods, jobs, cr>>
    /\ fault => used.faults < MaxFaults
    /\ used' = [used EXCEPT !.faults = IF fault THEN @ + 1 ELSE @]

\* lines 360-371: derive the ConfigMap's name from the instance-id label
\* and delete it in the Pod's namespace; an ApiException is logged and
\* swallowed.  A Pod without the label makes line 361 raise KeyError.
JobEventDeleteConfigMap(h, fault) ==
    /\ je[h].pc = "delete_cm"
    /\ LET e == je[h].event IN
       IF POD_INSTANCE_LABEL \notin DOMAIN e.labels
       THEN /\ je' = [je EXCEPT ![h].pc = "returned", ![h].outcome = "raised"]
            /\ cms' = cms
       ELSE LET cm_name == "nf-config-" \o e.labels[POD_INSTANCE_LABEL]
                key     == <<e.namespace, cm_name>>
            IN /\ cms' = ApiDelete(cms, key, fault)
               /\ je' = [je EXCEPT
                           ![h].pc = "returned",
                           ![h].outcome = "ok",
                           ![h].calls = Append(@, Call("delete", "ConfigMap",
                                          e.namespace, cm_name,
                                          ApiDeleteStatus(cms, key, fault)))]
    /\ UNCHANGED <<pods, jobs, cr>>
    /\ fault => used.faults < MaxFaults
    /\ used' = [used EXCEPT !.faults = IF fault THEN @ + 1 ELSE @]

-----------------------------------------------------------------------------
(* Strings the handler takes apart are sequences of characters.             *)

\* dict.get(key, default)
Get(d, k, default) == IF k \in DOMAIN d THEN d[k] ELSE default

\* str.split(sep): the pieces between the occurrences of sep
RECURSIVE SplitFrom(_, _, _, _)
SplitFrom(s, sep, i, piece) ==
    IF i > Len(s) THEN <<piece>>
    ELSE IF s[i] = sep THEN <<piece>> \o SplitFrom(s, sep, i + 1, <<>>)
    ELSE SplitFrom(s, sep, i + 1, Append(piece, s[i]))

Split(s, sep) == SplitFrom(s, sep, 1, <<>>)

\* str.lower() on the letters the model's images use
LowerChar(c) ==
    CASE c = "L" -> "l" [] c = "A" -> "a" [] c = "T" -> "t"
      [] c = "E" -> "e" [] c = "S" -> "s" [] c = "B" -> "b"
      [] OTHER -> c

Lower(s) == [i \in 1..Len(s) |-> LowerChar(s[i])]

\* lines 126-129: the pull policy from the image's tag
ImagePullPolicy(image) ==
    LET image_parts == Split(image, ":")
        image_tag   == IF Len(image_parts) = 1
                       THEN <<"l", "a", "t", "e", "s", "t">>
                       ELSE image_parts[2]
    IN IF Lower(image_tag) \in {<<"l", "a", "t", "e", "s", "t">>,
                                <<"s", "t", "a", "b", "l", "e">>}
       THEN "Always"
       ELSE "IfNotPresent"

\* line 135: shlex.split(command), POSIX mode, whitespace_split, no
\* comments.  state is " " between tokens, "a" inside a word, a quote
\* character inside quotes and "\\" after an escape; the result holds
\* the tokens, or the ValueError raised for an unclosed quotation or a
\* trailing escape.
ShlexTokens(out)   == [error |-> "", tokens |-> out]
ShlexError(reason) == [error |-> reason, tokens |-> <<>>]

ShlexWhitespace == {" "}
ShlexQuotes     == {"'", "\""}
ShlexEscape     == {"\\"}

RECURSIVE ShlexFrom(_, _, _, _, _, _, _)
ShlexFrom(s, i, state, escapedstate, token, quoted, out) ==
    LET eof  == i > Len(s)
        c    == s[i]
        emit == IF token # <<>> \/ quoted THEN Append(out, token) ELSE out
    IN
    IF state = " " THEN
        IF eof THEN ShlexTokens(out)
        ELSE IF c \in ShlexWhitespace
        THEN ShlexFrom(s, i + 1, " ", escapedstate, <<>>, FALSE, out)
        ELSE IF c \in ShlexEscape
        THEN ShlexFrom(s, i + 1, c, "a", token, quoted, out)
        ELSE IF c \in ShlexQuotes
        THEN ShlexFrom(s, i + 1, c, escapedstate, token, quoted, out)
        ELSE ShlexFrom(s, i + 1, "a", escapedstate, <<c>>, quoted, out)
    ELSE IF state \in ShlexQuotes THEN
        IF eof THEN ShlexError("No closing quotation")
        ELSE IF c = state
        THEN ShlexFrom(s, i + 1, "a", escapedstate, token, TRUE, out)
        ELSE IF c \in ShlexEscape /\ state = "\""
        THEN ShlexFrom(s, i + 1, c, state, token, TRUE, out)
        ELSE ShlexFrom(s, i + 1, state, escapedstate, Append(token, c), TRUE, out)
    ELSE IF state \in ShlexEscape THEN
        IF eof THEN ShlexError("No escaped character")
        ELSE LET kept == IF escapedstate \in ShlexQuotes /\ c # state
                            /\ c # escapedstate
                         THEN Append(token, state) ELSE token
             IN ShlexFrom(s, i + 1, escapedstate, escapedstate,
                          Append(kept, c), quoted, out)
    ELSE \* state = "a"
        IF eof THEN ShlexTokens(emit)
        ELSE IF c \in ShlexWhitespace
        THEN ShlexFrom(s, i + 1, " ", escapedstate, <<>>, FALSE, emit)
        ELSE IF c \in ShlexQuotes
        THEN ShlexFrom(s, i + 1, c, escapedstate, token, quoted, out)
        ELSE IF c \in ShlexEscape
        THEN ShlexFrom(s, i + 1, c, "a", token, quoted, out)
        ELSE ShlexFrom(s, i + 1, "a", escapedstate, Append(token, c), quoted, out)

ShlexSplit(command) == ShlexFrom(command, 1, " ", "a", <<>>, FALSE, <<>>)

-----------------------------------------------------------------------------
(* create: the kopf.on.create handler for DataManagerJob objects            *)

IdleCreate ==
    [pc |-> "idle", name |-> "", namespace |-> "", spec |-> <<>>,
     calls |-> <<>>, outcome |-> "none"]

\* the Pod's labels with the task id for an instance id (lines 210 and 212
\* mixed up)
PodLabels_TaskForInstance(name, spec) ==
    LET labels == (POD_PURPOSE_LABEL   :> POD_PURPOSE_LABEL_VALUE)
               @@ (POD_INSTANCE_LABEL  :> Get(spec, "taskId", ""))
               @@ (POD_INSTANCE_IS_JOB :> "yes")
               @@ (POD_TASK_ID_LABEL   :> name)
    IN IF Get(spec, "debug", FALSE)
       THEN (POD_DEBUG_LABEL :> "yes") @@ labels
       ELSE labels

\* lines 203-214, 286-289: the Pod's labels
PodLabels(name, spec) ==
    LET labels == (POD_PURPOSE_LABEL   :> POD_PURPOSE_LABEL_VALUE)
               @@ (POD_INSTANCE_LABEL  :> name)
               @@ (POD_INSTANCE_IS_JOB :> "yes")
               @@ (POD_TASK_ID_LABEL   :> Get(spec, "taskId", ""))
    IN IF Get(spec, "debug", FALSE)
       THEN (POD_DEBUG_LABEL :> "yes") @@ labels
       ELSE labels

\* lines 203-292: the Pod the handler builds and adopts; the store adds the
\* phase, the owner reference is kopf.adopt's
PodBody(name, spec) ==
    [labels          |-> PodLabels(name, spec),
     image           |-> Get(spec, "image", <<>>),
     command         |-> ShlexSplit(Get(spec, "command", <<>>)).tokens,
     imagePullPolicy |-> ImagePullPolicy(Get(spec, "image", <<>>)),
     configMap       |-> "nf-config-" \o name,
     owner           |-> "job",
     phase           |-> "Pending"]

\* lines 169-189: the ConfigMap the handler builds and adopts
ConfigMapBody(name, spec) ==
    [labels     |-> ("app" :> name),
     project_id |-> Get(Get(spec, "project", <<>>), "id", ""),
     owner      |-> "job"]

\* the validation without the test of spec.taskId (lines 116-118 left out)
CreateValidate_NoTaskId(name, namespace, spec) ==
    IF name = "" THEN "permanent"
    ELSE IF namespace = "" THEN "permanent"
    ELSE IF DOMAIN spec = {} THEN "permanent"
    ELSE IF Get(spec, "image", <<>>) = <<>> THEN "permanent"
    ELSE IF Get(spec, "command", <<>>) = <<>> THEN "permanent"
    ELSE IF Get(Get(spec, "project", <<>>), "id", "") = "" THEN "permanent"
    ELSE IF ShlexSplit(spec["command"]).error # "" THEN "raised"
    ELSE ""

\* lines 100-135: the mandatory properties, then the command's tokens.
\* "permanent" is kopf.PermanentError, "raised" any other exception (kopf
\* retries the handler after those), "" is no exception.
CreateValidate(name, namespace, spec) ==
    IF name = "" THEN "permanent"
    ELSE IF namespace = "" THEN "permanent"
    ELSE IF DOMAIN spec = {} THEN "permanent"
    ELSE IF Get(spec, "image", <<>>) = <<>> THEN "permanent"
    ELSE IF Get(spec, "command", <<>>) = <<>> THEN "permanent"
    ELSE IF Get(spec, "taskId", "") = "" THEN "permanent"
    ELSE IF Get(Get(spec, "project", <<>>), "id", "") = "" THEN "permanent"
    ELSE IF ShlexSplit(spec["command"]).error # "" THEN "raised"
    ELSE ""

\* kopf calls the handler for a DataManagerJob object that has just been
\* created; lines 100-189 run up to the first resource-store call.
\* Invocations are numbered in the order of their jobs.
CreateEnter(c, args) ==
    /\ cr[c].pc = "idle"
    /\ \A d \in Creators : d < c => cr[d].pc # "idle"
    /\ <<args.namespace, args.name>> \notin jobs
    /\ jobs' = IF args.name # "" /\ args.namespace # ""
               THEN jobs \cup {<<args.namespace, args.name>>}
               ELSE jobs
    /\ LET failure == CreateValidate(args.name, args.namespace, args.spec)
           entered == [IdleCreate EXCEPT !.name = args.name,
                                         !.namespace = args.namespace,
                                         !.spec = args.spec]
       IN cr' = [cr EXCEPT ![c] =
                   IF failure = ""
                   THEN [entered EXCEPT !.pc = "create_cm"]
                   ELSE [entered EXCEPT !.pc = "returned",
                                        !.outcome = failure]]
    /\ UNCHANGED <<pods, cms, je, used>>

\* the ConfigMap create whose ApiException is logged and not raised (lines
\* 193-196 without the raise): the handler goes on to the Pod
CreateConfigMap_Continue(c, fault) ==
    /\ cr[c].pc = "create_cm"
    /\ LET r       == cr[c]
           cm_name == "nf-config-" \o r.name
           key     == <<r.namespace, cm_name>>
           status  == ApiCreateStatus(cms, key, fault)
       IN /\ cms' = ApiCreate(cms, key, ConfigMapBody(r.name, r.spec), fault)
          /\ cr' = [cr EXCEPT
                      ![c].calls = Append(@, Call("create", "ConfigMap",
                                     r.namespace, cm_name, status)),
                      ![c].pc = "create_pod"]
    /\ UNCHANGED <<pods, jobs, je>>
    /\ fault => used.faults < MaxFaults
    /\ used' = [used EXCEPT !.faults = IF fault THEN @ + 1 ELSE @]

\* lines 189-198: adopt and create the ConfigMap; any ApiException becomes
\* a PermanentError
CreateConfigMap(c, fault) ==
    /\ cr[c].pc = "create_cm"
    /\ LET r       == cr[c]
           cm_name == "nf-config-" \o r.name
           key     == <<r.namespace, cm_name>>
           status  == ApiCreateStatus(cms, key, fault)
       IN /\ cms' = ApiCreate(cms, key, ConfigMapBody(r.name, r.spec), fault)
          /\ cr' = [cr EXCEPT
                      ![c].calls = Append(@, Call("create", "ConfigMap",
                                     r.namespace, cm_name, status)),
                      ![c].pc = IF status = 201 THEN "create_pod"
                                ELSE "returned",
                      ![c].outcome = IF status = 201 THEN @ ELSE "permanent"]
    /\ UNCHANGED <<pods, jobs, je>>
    /\ fault => used.faults < MaxFaults
    /\ used' = [used EXCEPT !.faults = IF fault THEN @ + 1 ELSE @]

\* the Pod create whose ApiException is not turned into a PermanentError
\* (lines 299-302 with a plain raise): kopf would call the handler again
CreatePod_Retryable(c, fault) ==
    /\ cr[c].pc = "create_pod"
    /\ LET r      == cr[c]
           key    == <<r.namespace, r.name>>
           status == ApiCreateStatus(pods, key, fault)
       IN /\ pods' = ApiCreate(pods, key, PodBody(r.name, r.spec), fault)
          /\ cr' = [cr EXCEPT
                      ![c].calls = Append(@, Call("create", "Pod",
                                     r.namespace, r.name, status)),
                      ![c].pc = "returned",
                      ![c].outcome = IF status = 201 THEN "ok"
                                     ELSE "raised"]
    /\ UNCHANGED <<cms, jobs, je>>
    /\ fault => used.faults < MaxFaults
    /\ used' = [used EXCEPT !.faults = IF fault THEN @ + 1 ELSE @]

\* lines 203-304: build, adopt and create the Pod; any ApiException becomes
\* a PermanentError
CreatePod(c, fault) ==
    /\ cr[c].pc = "create_pod"
    /\ LET r      == cr[c]
           key    == <<r.namespace, r.name>>
           status == ApiCreateStatus(pods, key, fault)
       IN /\ pods' = ApiCreate(pods, key, PodBody(r.name, r.spec), fault)
          /\ cr' = [cr EXCEPT
                      ![c].calls = Append(@, Call("create", "Pod",
                                     r.namespace, r.name, status)),
                      ![c].pc = "returned",
                      ![c].outcome = IF status = 201 THEN "ok"
                                     ELSE "permanent"]
    /\ UNCHANGED <<cms, jobs, je>>
    /\ fault => used.faults < MaxFaults
    /\ used' = [used EXCEPT !.faults = IF fault THEN @ + 1 ELSE @]

-----------------------------------------------------------------------------
(* The environment: the jobs handed to create, the kubelet, the owner-      *)
(* reference garbage collector and other writers of purpose-labelled Pods   *)

GoodImage   == <<"w", ":", "2">>
GoodCommand == <<"r", " ", "'", "x", " ", "y", "'">>
BadCommand  == <<"r", " ", "'", "x">>

JobSpec(image, command, taskId, project_id) ==
    ("image" :> image) @@ ("command" :> command) @@ ("taskId" :> taskId)
        @@ ("project" :> ("id" :> project_id))

Without(d, k) == [x \in DOMAIN d \ {k} |-> d[x]]

GoodSpec == JobSpec(GoodImage, GoodCommand, "t1", "p1")

\* the jobs with every mandatory property, with and without spec.debug
ValidJobs ==
    { [name |-> n, namespace |-> ns, spec |-> sp] :
        n \in Names, ns \in Namespaces,
        sp \in {GoodSpec, ("debug" :> TRUE) @@ GoodSpec} }

\* a job lacking one mandatory property (absent, or present and empty)
InvalidJobs ==
    { [name |-> "", namespace |-> "ns", spec |-> GoodSpec],
      [name |-> "a", namespace |-> "", spec |-> GoodSpec] }
    \cup { [name |-> "a", namespace |-> "ns", spec |-> sp] :
             sp \in { <<>>,
                      Without(GoodSpec, "image"),
                      Without(GoodSpec, "command"),
                      Without(GoodSpec, "taskId"),
                      Without(GoodSpec, "project"),
                      JobSpec(<<>>, GoodCommand, "t1", "p1"),
                      JobSpec(GoodImage, <<>>, "t1", "p1"),
                      JobSpec(GoodImage, GoodCommand, "", "p1"),
                      JobSpec(GoodImage, GoodCommand, "t1", ""),
                      ("project" :> <<>>) @@ Without(GoodSpec, "project"),
                      Without(Without(GoodSpec, "image"), "taskId") } }

\* a job whose command shlex cannot split
UnsplittableJobs ==
    { [name |-> "a", namespace |-> "ns",
       spec |-> JobSpec(GoodImage, BadCommand, "t1", "p1")] }

JobArgs == ValidJobs \cup InvalidJobs \cup UnsplittableJobs

PodKeys == Namespaces \X Names

ConfigMapKeys == { <<k[1], "nf-config-" \o k[2]>> : k \in PodKeys }

NextPhases(phase) ==
    CASE phase = "Pending" -> {"Running"}
      [] phase = "Running" -> TerminalPhases
      [] OTHER             -> {}

\* the kubelet moves a Pod to its next phase
EnvPodPhase(key, phase) ==
    /\ key \in DOMAIN pods
    /\ phase \in NextPhases(pods[key].phase)
    /\ pods' = [pods EXCEPT ![key].phase = phase]
    /\ UNCHANGED <<cms, jobs, je, cr, used>>

\* the DataManagerJob object is deleted; what it owns (kopf.adopt, lines
\* 189 and 292) is left to the garbage collector
Disowned(store, key) ==
    IF key \in DOMAIN store /\ store[key].owner = "job"
    THEN [store EXCEPT ![key].owner = "gone"]
    ELSE store

EnvDeleteJob(key) ==
    /\ key \in jobs
    /\ \A c \in Creators :
          cr[c].pc \in {"create_cm", "create_pod"}
              => <<cr[c].namespace, cr[c].name>> # key
    /\ jobs' = jobs \ {key}
    /\ pods' = Disowned(pods, key)
    /\ cms' = Disowned(cms, <<key[1], "nf-config-" \o key[2]>>)
    /\ UNCHANGED <<je, cr>>
    /\ used.jobdeletes < MaxJobDeletes
    /\ used' = [used EXCEPT !.jobdeletes = @ + 1]

\* the garbage collector removes an object whose owner is gone
EnvCollectPod(key) ==
    /\ key \in DOMAIN pods
    /\ pods[key].owner = "gone"
    /\ pods' = [k \in DOMAIN pods \ {key} |-> pods[k]]
    /\ UNCHANGED <<cms, jobs, je, cr, used>>

EnvCollectConfigMap(key) ==
    /\ key \in DOMAIN cms
    /\ cms[key].owner = "gone"
    /\ cms' = [k \in DOMAIN cms \ {key} |-> cms[k]]
    /\ UNCHANGED <<pods, jobs, je, cr, used>>

-----------------------------------------------------------------------------
(* The specification *)

Init ==
    /\ pods = <<>>
    /\ cms = <<>>
    /\ jobs = {}
    /\ je = [h \in Handlers |-> IdleJobEvent]
    /\ cr = [c \in Creators |-> IdleCreate]
    /\ used = [faults |-> 0, jobdeletes |-> 0]

Next ==
    \/ \E c \in Creators, args \in JobArgs : CreateEnter(c, args)
    \/ \E c \in Creators, fault \in BOOLEAN : CreateConfigMap(c, fault)
    \/ \E c \in Creators, fault \in BOOLEAN : CreatePod(c, fault)
    \/ \E h \in Handlers, type \in EventTypes, key \in PodKeys :
          Notify(h, type, key)
    \/ \E h \in Handlers : JobEventEnter(h)
    \/ \E h \in Handlers : JobEventSleep(h)
    \/ \E h \in Handlers, fault \in BOOLEAN : JobEventDeletePod(h, fault)
    \/ \E h \in Handlers, fault \in BOOLEAN : JobEventDeleteConfigMap(h, fault)
    \/ \E key \in PodKeys, phase \in PodPhases : EnvPodPhase(key, phase)
    \/ \E key \in PodKeys : EnvDeleteJob(key)
    \/ \E key \in PodKeys : EnvCollectPod(key)
    \/ \E key \in ConfigMapKeys : EnvCollectConfigMap(key)

Spec == Init /\ [][Next]_vars

\* The runs of valid jobs of one name in which a job_event invocation, once
\* called or due to be called, goes on to its end: kopf runs each invocation
\* in a worker thread, the sleep returns and every resource-store call
\* answers.  The store's garbage collector is at work as well.
LiveJobs == { args \in ValidJobs : args.name = "a" }

NextLive ==
    \/ \E c \in Creators, args \in LiveJobs : CreateEnter(c, args)
    \/ \E c \in Creators, fault \in BOOLEAN : CreateConfigMap(c, fault)
    \/ \E c \in Creators, fault \in BOOLEAN : CreatePod(c, fault)
    \/ \E h \in Handlers, type \in EventTypes, key \in PodKeys :
          Notify(h, type, key)
    \/ \E h \in Handlers : JobEventEnter(h)
    \/ \E h \in Handlers : JobEventSleep(h)
    \/ \E h \in Handlers, fault \in BOOLEAN : JobEventDeletePod(h, fault)
    \/ \E h \in Handlers, fault \in BOOLEAN : JobEventDeleteConfigMap(h, fault)
    \/ \E key \in PodKeys, phase \in PodPhases : EnvPodPhase(key, phase)
    \/ \E key \in PodKeys : EnvDeleteJob(key)
    \/ \E key \in PodKeys : EnvCollectPod(key)
    \/ \E key \in ConfigMapKeys : EnvCollectConfigMap(key)

JobEventFairness ==
    \A h \in Handlers :
        /\ WF_vars(JobEventEnter(h))
        /\ WF_vars(JobEventSleep(h))
        /\ WF_vars(\E fault \in BOOLEAN : JobEventDeletePod(h, fault))
        /\ WF_vars(\E fault \in BOOLEAN : JobEventDeleteConfigMap(h, fault))

\* the garbage collector gets to every object whose owner is gone
CollectorFairness ==
    /\ \A key \in PodKeys : WF_vars(EnvCollectPod(key))
    /\ \A key \in ConfigMapKeys : WF_vars(EnvCollectConfigMap(key))

SpecLive ==
    Init /\ [][NextLive]_vars /\ JobEventFairness /\ CollectorFairness

\* The runs of create alone, over jobs that differ in their image
\* reference and in spec.debug (absent, True, False).
Latest == <<"l", "a", "t", "e", "s", "t">>
Stable == <<"s", "t", "a", "b", "l", "e">>

\* w, w:latest, w:stable, w:LATEST, w:2, and the same behind a registry
\* with a port: r:5/w, r:5/w:latest, r:5/w:2
Images ==
    { <<"w">>,
      <<"w", ":">> \o Latest,
      <<"w", ":">> \o Stable,
      <<"w", ":", "L", "A", "T", "E", "S", "T">>,
      <<"w", ":", "2">>,
      <<"r", ":", "5", "/", "w">>,
      <<"r", ":", "5", "/", "w", ":">> \o Latest,
      <<"r", ":", "5", "/", "w", ":", "2">> }

CreateJobs ==
    { [name |-> n, namespace |-> ns, spec |-> sp] :
        n \in Names, ns \in Namespaces,
        sp \in UNION { { JobSpec(image, GoodCommand, "t1", "p1"),
                         ("debug" :> TRUE)
                             @@ JobSpec(image, GoodCommand, "t1", "p1"),
                         ("debug" :> FALSE)
                             @@ JobSpec(image, GoodCommand, "t1", "p1") } :
                       image \in Images } }

NextCreate ==
    \/ \E c \in Creators, args \in CreateJobs : CreateEnter(c, args)
    \/ \E c \in Creators, fault \in BOOLEAN : CreateConfigMap(c, fault)
    \/ \E c \in Creators, fault \in BOOLEAN : CreatePod(c, fault)

SpecCreate == Init /\ [][NextCreate]_vars

\* The runs in which Pods that create did not make carry the purpose label
\* too (the selector of line 308 is the purpose label alone): an instance
\* of some other kind, with instance-id and instance-is-job=no, or a Pod
\* with the purpose label only.
ForeignLabels(name) ==
    { (POD_PURPOSE_LABEL :> POD_PURPOSE_LABEL_VALUE),
      (POD_PURPOSE_LABEL :> POD_PURPOSE_LABEL_VALUE)
          @@ (POD_INSTANCE_LABEL :> name)
          @@ (POD_INSTANCE_IS_JOB :> "no") }

\* somebody else creates a Pod that carries the purpose label
EnvCreateForeignPod(key, labels) ==
    /\ key \notin DOMAIN pods
    /\ key \notin jobs
    /\ pods' = (key :> [labels          |-> labels,
                        image           |-> GoodImage,
                        command         |-> <<>>,
                        imagePullPolicy |-> "IfNotPresent",
                        configMap       |-> "",
                        owner           |-> "none",
                        phase           |-> "Pending"]) @@ pods
    /\ UNCHANGED <<cms, jobs, je, cr, used>>

\* the names the foreign Pods take; the jobs of these runs are LiveJobs
ForeignKeys == { key \in PodKeys : \A args \in LiveJobs : args.name # key[2] }

NextForeign ==
    \/ \E c \in Creators, args \in LiveJobs : CreateEnter(c, args)
    \/ \E c \in Creators, fault \in BOOLEAN : CreateConfigMap(c, fault)
    \/ \E c \in Creators, fault \in BOOLEAN : CreatePod(c, fault)
    \/ \E key \in ForeignKeys :
          \E labels \in ForeignLabels(key[2]) : EnvCreateForeignPod(key, labels)
    \/ \E key \in PodKeys, phase \in PodPhases : EnvPodPhase(key, phase)
    \/ \E h \in Handlers, type \in EventTypes, key \in PodKeys :
          Notify(h, type, key)
    \/ \E h \in Handlers : JobEventEnter(h)
    \/ \E h \in Handlers : JobEventSleep(h)
    \/ \E h \in Handlers, fault \in BOOLEAN : JobEventDeletePod(h, fault)
    \/ \E h \in Handlers, fault \in BOOLEAN : JobEventDeleteConfigMap(h, fault)

SpecForeign == Init /\ [][NextForeign]_vars

\* The runs in which the controller's process is killed and started again.
\* An invocation of job_event that had been handed its event and had not
\* returned is lost with the process: kopf keeps nothing of an on.event
\* handler, and after the restart the Pods come as new events (Notify).
\* The record keeps, as its outcome, the statement the invocation was at.
\* A create run is not on.event; what kopf does with one after a restart is
\* outside src/, so the process is killed here only between create runs.
InFlight(h) == je[h].pc \in {"queued", "sleep", "delete_pod", "delete_cm"}

Lost(r) == [r EXCEPT !.pc = "lost", !.outcome = r.pc]

\* variant: the process ends only after the sleeping invocations have run
\* to their end, deleting the Pod and the ConfigMap of their events
Terminate_Graceful ==
    /\ \E h \in Handlers : InFlight(h)
    /\ \A c \in Creators : cr[c].pc \in {"idle", "returned"}
    /\ je' = [h \in Handlers |-> IF InFlight(h) THEN Lost(je[h]) ELSE je[h]]
    /\ LET sleeping == { h \in Handlers : je[h].pc = "sleep" }
           gone     == { <<je[h].event.namespace, je[h].event.name>> :
                           h \in sleeping }
           cmgone   == { <<je[h].event.namespace,
                           "nf-config-" \o je[h].event.name>> : h \in sleeping }
       IN /\ pods' = [k \in DOMAIN pods \ gone |-> pods[k]]
          /\ cms' = [k \in DOMAIN cms \ cmgone |-> cms[k]]
    /\ UNCHANGED <<jobs, cr, used>>

Terminate ==
    /\ \E h \in Handlers : InFlight(h)
    /\ \A c \in Creators : cr[c].pc \in {"idle", "returned"}
    /\ je' = [h \in Handlers |-> IF InFlight(h) THEN Lost(je[h]) ELSE je[h]]
    /\ UNCHANGED <<pods, cms, jobs, cr, used>>

NextRestart ==
    \/ \E c \in Creators, args \in JobArgs : CreateEnter(c, args)
    \/ \E c \in Creators, fault \in BOOLEAN : CreateConfigMap(c, fault)
    \/ \E c \in Creators, fault \in BOOLEAN : CreatePod(c, fault)
    \/ \E h \in Handlers, type \in EventTypes, key \in PodKeys :
          Notify(h, type, key)
    \/ \E h \in Handlers : JobEventEnter(h)
    \/ \E h \in Handlers : JobEventSleep(h)
    \/ \E h \in Handlers, fault \in BOOLEAN : JobEventDeletePod(h, fault)
    \/ \E h \in Handlers, fault \in BOOLEAN : JobEventDeleteConfigMap(h, fault)
    \/ \E key \in PodKeys, phase \in PodPhases : EnvPodPhase(key, phase)
    \/ \E key \in PodKeys : EnvDeleteJob(key)
    \/ \E key \in PodKeys : EnvCollectPod(key)
    \/ \E key \in ConfigMapKeys : EnvCollectConfigMap(key)
    \/ Terminate

SpecRestart == Init /\ [][NextRestart]_vars

-----------------------------------------------------------------------------
(* What the claims speak of *)

\* the event passes the filters of lines 320-338: job_event will delete
Acting(event) ==
    /\ event.type = "MODIFIED"
    /\ event.phase \in TerminalPhases
    /\ POD_DEBUG_LABEL \notin DOMAIN event.labels

Delivered(h) == je[h].pc # "idle"
Returned(h) == je[h].pc = "returned"

HasDebug(labels) == POD_DEBUG_LABEL \in DOMAIN labels

Deletes(calls) == { i \in 1..Len(calls) : calls[i].op = "delete" }

\* the invocation of slot h takes a step
JobEventStep(h) == je'[h] # je[h]
CreateStep(c) == cr'[c] # cr[c]

-----------------------------------------------------------------------------
\* C1: a MODIFIED event with a terminal phase and no debug label makes
\* job_event issue exactly one Pod delete, by the Pod's name and namespace,
\* and exactly one ConfigMap delete, of nf-config-<instance-id label> in the
\* Pod's namespace (the name is made of the label, so of a Pod that has it).
C1_OneDeleteEach ==
    \A h \in Handlers :
        (/\ Returned(h)
         /\ Acting(je[h].event)
         /\ POD_INSTANCE_LABEL \in DOMAIN je[h].event.labels)
        => LET e     == je[h].event
               calls == je[h].calls
           IN /\ Len(calls) = 2
              /\ calls[1] = Call("delete", "Pod", e.namespace, e.name,
                                 calls[1].status)
              /\ calls[2] = Call("delete", "ConfigMap", e.namespace,
                                 "nf-config-" \o e.labels[POD_INSTANCE_LABEL],
                                 calls[2].status)

\* a finished job's Pod and ConfigMap were both there and both deleted
C1_Witness ==
    \E h \in Handlers :
        /\ Returned(h)
        /\ Acting(je[h].event)
        /\ je[h].event.phase = "Succeeded"
        /\ Len(je[h].calls) = 2
        /\ je[h].calls[1].status = 200
        /\ je[h].calls[2].status = 200

-----------------------------------------------------------------------------
\* a debug-labelled event, whatever its phase, makes job_event issue no
\* delete call and never reach the sleep
DebugEventIgnored ==
    \A h \in Handlers :
        (Delivered(h) /\ HasDebug(je[h].event.labels))
        => /\ je[h].calls = <<>>
           /\ je[h].slept = 0
           /\ je[h].pc \in {"queued", "returned"}

\* no step of job_event removes a Pod that carries the debug label, or the
\* ConfigMap of such a Pod
DebugPodKept ==
    \A key \in DOMAIN pods :
        HasDebug(pods[key].labels)
        => /\ key \in DOMAIN pods'
           /\ <<key[1], "nf-config-" \o key[2]>> \in DOMAIN cms
                => <<key[1], "nf-config-" \o key[2]>> \in DOMAIN cms'

\* C2: an event of a Pod with the debug label, whatever its phase, makes
\* job_event issue no delete call and skip the sleep; so no sequence of
\* events makes the controller delete a debug-labelled Pod or its ConfigMap.
C2_DebugProtected ==
    /\ []DebugEventIgnored
    /\ [][ (\E h \in Handlers : JobEventStep(h)) => DebugPodKept ]_vars

-----------------------------------------------------------------------------
\* C3: an event that is not MODIFIED, or whose phase is not Succeeded,
\* Failed or Completed, makes job_event issue no delete call and skip the
\* sleep; none of the invocation's steps changes the store.
Unfiltered(event) ==
    event.type = "MODIFIED" /\ event.phase \in TerminalPhases

C3_FilteredOut ==
    /\ [](\A h \in Handlers :
            (Delivered(h) /\ ~Unfiltered(je[h].event))
            => /\ je[h].calls = <<>>
               /\ je[h].slept = 0
               /\ je[h].pc \in {"queued", "returned"}
               /\ je[h].pc = "returned" => je[h].outcome = "ok")
    /\ [][ \A h \in Handlers :
             (JobEventStep(h) /\ ~Unfiltered(je'[h].event))
             => pods' = pods /\ cms' = cms ]_vars

\* an event of another type for a finished Pod, and a MODIFIED event for a
\* running one, have both been handled
C3_Witness ==
    \E g, h \in Handlers :
        /\ Returned(g)
        /\ je[g].event.type = "DELETED"
        /\ je[g].event.phase \in TerminalPhases
        /\ ~HasDebug(je[g].event.labels)
        /\ Returned(h)
        /\ je[h].event.type = "MODIFIED"
        /\ je[h].event.phase = "Running"

-----------------------------------------------------------------------------
\* C4: a job whose name, namespace, spec, image, command, taskId or
\* project.id is missing or empty makes create end with a PermanentError
\* without any resource-store call.
MissingMandatory(r) ==
    \/ r.name = ""
    \/ r.namespace = ""
    \/ DOMAIN r.spec = {}
    \/ "image" \notin DOMAIN r.spec
    \/ "command" \notin DOMAIN r.spec
    \/ "taskId" \notin DOMAIN r.spec
    \/ "project" \notin DOMAIN r.spec
    \/ r.spec["image"] = <<>>
    \/ r.spec["command"] = <<>>
    \/ r.spec["taskId"] = ""
    \/ "id" \notin DOMAIN r.spec["project"]
    \/ r.spec["project"]["id"] = ""

C4_InvalidJobRejected ==
    \A c \in Creators :
        (cr[c].pc # "idle" /\ MissingMandatory(cr[c]))
        => /\ cr[c].pc = "returned"
           /\ cr[c].outcome = "permanent"
           /\ cr[c].calls = <<>>

\* a job without a taskId and a job without a namespace were both rejected
C4_Witness ==
    \E c, d \in Creators :
        /\ cr[c].pc = "returned"
        /\ cr[c].name # "" /\ cr[c].namespace # ""
        /\ DOMAIN cr[c].spec # {}
        /\ "taskId" \notin DOMAIN cr[c].spec
        /\ cr[d].pc = "returned"
        /\ cr[d].namespace = ""

-----------------------------------------------------------------------------
\* C5: in every run of create the ConfigMap create call comes before the
\* Pod create call, the Pod create call is issued only after the ConfigMap
\* create call succeeded, and each is issued at most once.
C5_CreateOrder ==
    \A c \in Creators :
        LET r == cr[c] IN
        /\ Len(r.calls) <= 2
        /\ Len(r.calls) >= 1
             => r.calls[1] = Call("create", "ConfigMap", r.namespace,
                                  "nf-config-" \o r.name, r.calls[1].status)
        /\ Len(r.calls) = 2
             => /\ r.calls[1].status = 201
                /\ r.calls[2] = Call("create", "Pod", r.namespace, r.name,
                                     r.calls[2].status)
        /\ (r.pc = "returned" /\ r.outcome = "ok") => Len(r.calls) = 2
        /\ r.pc = "create_pod" => Len(r.calls) = 1

\* one run created both, another stopped at a ConfigMap that was refused
C5_Witness ==
    \E c, d \in Creators :
        /\ cr[c].pc = "returned"
        /\ Len(cr[c].calls) = 2
        /\ cr[c].calls[2].status = 201
        /\ cr[d].pc = "returned"
        /\ Len(cr[d].calls) = 1
        /\ cr[d].calls[1].status # 201

-----------------------------------------------------------------------------
\* C6: a failure of the ConfigMap create call or of the Pod create call
\* ends create with a PermanentError: the failed call is the run's last
\* call, it is not repeated, and no run ends with a retryable error after
\* a create call.
C6_CreateFailurePermanent ==
    \A c \in Creators :
        LET r == cr[c] IN
        /\ \A i \in 1..Len(r.calls) :
              r.calls[i].status # 201
              => /\ i = Len(r.calls)
                 /\ r.pc = "returned"
                 /\ r.outcome = "permanent"
        /\ \A i, j \in 1..Len(r.calls) :
              r.calls[i].kind = r.calls[j].kind => i = j
        /\ r.outcome = "raised" => r.calls = <<>>

\* the Pod create call failed after the ConfigMap was created
C6_Witness ==
    \E c \in Creators :
        /\ cr[c].pc = "returned"
        /\ cr[c].outcome = "permanent"
        /\ Len(cr[c].calls) = 2
        /\ cr[c].calls[2].status # 201

-----------------------------------------------------------------------------
\* C7: when the Pod delete call fails, with whatever status, job_event
\* still issues the ConfigMap delete call; and whichever of the two delete
\* calls fail, job_event returns normally.
C7_DeleteFailureTolerated ==
    \A h \in Handlers :
        (/\ Acting(je[h].event)
         /\ POD_INSTANCE_LABEL \in DOMAIN je[h].event.labels)
        => /\ (Returned(h) /\ Len(je[h].calls) >= 1
                  /\ je[h].calls[1].status # 200)
                => /\ Len(je[h].calls) = 2
                   /\ je[h].calls[2].kind = "ConfigMap"
           /\ Returned(h) => je[h].outcome = "ok"
           /\ (Len(je[h].calls) = 1 /\ je[h].calls[1].status # 200)
                => je[h].pc = "delete_cm"

\* the store refused the Pod delete, and the ConfigMap was deleted all the
\* same
C7_Witness ==
    \E h \in Handlers :
        /\ Returned(h)
        /\ Len(je[h].calls) = 2
        /\ je[h].calls[1].status = 500
        /\ je[h].calls[2].status = 200

-----------------------------------------------------------------------------
\* successful create calls for an object so far
Created(kind, namespace, name) ==
    { <<c, i>> \in Creators \X (1..2) :
        /\ i <= Len(cr[c].calls)
        /\ cr[c].calls[i] = Call("create", kind, namespace, name, 201) }

\* g and h handled, in this order, terminal MODIFIED events of the same
\* Pod without the debug label
HandledTwice(g, h) ==
    /\ g < h
    /\ Returned(g) /\ Returned(h)
    /\ Acting(je[g].event) /\ Acting(je[h].event)
    /\ je[g].event.namespace = je[h].event.namespace
    /\ je[g].event.name = je[h].event.name
    /\ je[g].event.labels = je[h].event.labels

-----------------------------------------------------------------------------
\* both create calls of a job without spec.debug succeeded, and job_event
\* has been handed a terminal MODIFIED event of the job's Pod and has not
\* come to its delete calls yet
CleanupDue(h) ==
    /\ je[h].pc \in {"queued", "sleep", "delete_pod"}
    /\ Acting(je[h].event)
    /\ \E c \in Creators :
          /\ cr[c].namespace = je[h].event.namespace
          /\ cr[c].name = je[h].event.name
          /\ ~Get(cr[c].spec, "debug", FALSE)
          /\ cr[c].pc = "returned"
          /\ cr[c].outcome = "ok"

\* the Pod, the ConfigMap of the event of h is not in the store
PodGone(h) ==
    /\ Delivered(h)
    /\ <<je[h].event.namespace, je[h].event.name>> \notin DOMAIN pods

ConfigMapGone(h) ==
    /\ Delivered(h)
    /\ <<je[h].event.namespace, "nf-config-" \o je[h].event.name>>
           \notin DOMAIN cms

\* the store refused the delete call of h for an object of this kind
Refused(h, kind) ==
    \E i \in 1..Len(je[h].calls) :
        je[h].calls[i].kind = kind /\ je[h].calls[i].status = 500

CleanedUnlessRefused ==
    \A h \in Handlers :
        CleanupDue(h) ~> \/ PodGone(h) /\ ConfigMapGone(h)
                         \/ Refused(h, "Pod")
                         \/ Refused(h, "ConfigMap")

-----------------------------------------------------------------------------
\* the ConfigMap create call of run c succeeded and its Pod create call
\* failed
PartialCreation(r) ==
    /\ Len(r.calls) = 2
    /\ r.calls[1].status = 201
    /\ r.calls[2].status # 201

\* C10: when the ConfigMap create call succeeds and the Pod create call
\* that follows fails, create ends with a PermanentError, has issued no
\* delete call, and the ConfigMap it created is in the store at the moment
\* it returns.
C10_NoCompensation ==
    /\ [](\A c \in Creators :
            PartialCreation(cr[c])
            => /\ cr[c].pc = "returned"
               /\ cr[c].outcome = "permanent"
               /\ Deletes(cr[c].calls) = {})
    /\ [][ \A c \in Creators :
             (CreateStep(c) /\ PartialCreation(cr'[c]))
             => <<cr'[c].namespace, "nf-config-" \o cr'[c].name>>
                    \in DOMAIN cms' ]_vars

\* what create itself does in that case: no delete call, and the step of
\* the failed Pod create call leaves the ConfigMaps as they are
CreateKeepsConfigMap ==
    /\ [](\A c \in Creators :
            PartialCreation(cr[c])
            => /\ cr[c].pc = "returned"
               /\ cr[c].outcome = "permanent"
               /\ Deletes(cr[c].calls) = {})
    /\ [][ \A c \in Creators :
             (CreateStep(c) /\ PartialCreation(cr'[c])) => cms' = cms ]_vars

-----------------------------------------------------------------------------
\* the Pod an invocation is about
EventKey(h) == <<je[h].event.namespace, je[h].event.name>>

\* the next statement of invocation g can be executed now
CanStep(g) ==
    CASE je[g].pc = "queued"     -> ENABLED JobEventEnter(g)
      [] je[g].pc = "sleep"      -> ENABLED JobEventSleep(g)
      [] je[g].pc = "delete_pod" -> ENABLED JobEventDeletePod(g, FALSE)
      [] je[g].pc = "delete_cm"  -> ENABLED JobEventDeleteConfigMap(g, FALSE)
      [] OTHER                   -> TRUE

\* an invocation other than h that is about the Pod at key and not done
OwnQueue(h, g, key) ==
    \E f \in Handlers \ {g, h} :
        /\ je[f].pc \in {"queued", "sleep", "delete_pod", "delete_cm"}
        /\ EventKey(f) = key

-----------------------------------------------------------------------------
\* every object of the store is in next, as it is
Kept(store, next) ==
    \A key \in DOMAIN store : key \in DOMAIN next /\ next[key] = store[key]

\* run c has just issued its ConfigMap create call for a name the store held
Collided(c) ==
    /\ CreateStep(c)
    /\ Len(cr'[c].calls) = 1
    /\ <<cr'[c].namespace, "nf-config-" \o cr'[c].name>> \in DOMAIN cms

\* C12: the store holds one Pod <job> and one ConfigMap nf-config-<job> per
\* namespace at most, as no create call adds to or alters an object that
\* exists; a create run for a job whose ConfigMap exists fails at the
\* ConfigMap create call with a PermanentError, issues no further call and
\* leaves the Pods and the ConfigMaps as they are.
C12_CollisionGuard ==
    /\ [][ \A c \in Creators :
             CreateStep(c) => Kept(pods, pods') /\ Kept(cms, cms') ]_vars
    /\ [][ \A c \in Creators :
             Collided(c)
             => /\ cr'[c].calls[1].status # 201
                /\ cr'[c].pc = "returned"
                /\ cr'[c].outcome = "permanent"
                /\ pods' = pods
                /\ cms' = cms ]_vars
    /\ [](\A c \in Creators :
            (Len(cr[c].calls) >= 1 /\ cr[c].calls[1].status = 409)
            => /\ cr[c].pc = "returned"
               /\ cr[c].outcome = "permanent"
               /\ Len(cr[c].calls) = 1)

\* a second run for job a met the ConfigMap and the Pod of the first
C12_Witness ==
    \E c, d \in Creators :
        /\ c < d
        /\ cr[c].name = cr[d].name
        /\ cr[c].namespace = cr[d].namespace
        /\ cr[c].outcome = "ok"
        /\ cr[d].pc = "returned"
        /\ Len(cr[d].calls) = 1
        /\ cr[d].calls[1].status = 409
        /\ <<cr[d].namespace, cr[d].name>> \in DOMAIN pods
        /\ <<cr[d].namespace, "nf-config-" \o cr[d].name>> \in DOMAIN cms

-----------------------------------------------------------------------------
\* run c has just created an object with its last call
JustCreated(c, kind) ==
    /\ CreateStep(c)
    /\ cr'[c].calls # <<>>
    /\ cr'[c].calls[Len(cr'[c].calls)].kind = kind
    /\ cr'[c].calls[Len(cr'[c].calls)].status = 201

\* C13: for a valid job, create makes the ConfigMap nf-config-<job> and the
\* Pod <job> with the labels purpose=INSTANCE, instance-id=<job>,
\* instance-is-job=yes, task-id=<taskId>, and debug=yes exactly when
\* spec.debug is set; the name job_event makes of the Pod's instance-id
\* label is the name of the ConfigMap the run created.
C13_NamesAndLabels ==
    /\ [][ \A c \in Creators :
             JustCreated(c, "ConfigMap")
             => /\ cr'[c].calls[1].name = "nf-config-" \o cr'[c].name
                /\ <<cr'[c].namespace, "nf-config-" \o cr'[c].name>>
                       \in DOMAIN cms' \ DOMAIN cms ]_vars
    /\ [][ \A c \in Creators :
             JustCreated(c, "Pod")
             => LET r      == cr'[c]
                    key    == <<r.namespace, r.name>>
                    labels == pods'[key].labels
                    debug  == "debug" \in DOMAIN r.spec /\ r.spec["debug"]
                IN /\ key \in DOMAIN pods' \ DOMAIN pods
                   /\ DOMAIN labels =
                        {POD_PURPOSE_LABEL, POD_INSTANCE_LABEL,
                         POD_INSTANCE_IS_JOB, POD_TASK_ID_LABEL}
                        \cup (IF debug THEN {POD_DEBUG_LABEL} ELSE {})
                   /\ labels[POD_PURPOSE_LABEL] = "INSTANCE"
                   /\ labels[POD_INSTANCE_LABEL] = r.name
                   /\ labels[POD_INSTANCE_IS_JOB] = "yes"
                   /\ labels[POD_TASK_ID_LABEL] = r.spec["taskId"]
                   /\ debug => labels[POD_DEBUG_LABEL] = "yes"
                   /\ "nf-config-" \o labels[POD_INSTANCE_LABEL]
                        = r.calls[1].name
                   /\ pods'[key].configMap = r.calls[1].name ]_vars

\* the Pod of a job with spec.debug and the Pod of a job with debug False
\* are in the store
C13_Witness ==
    \E c, d \in Creators :
        /\ cr[c].outcome = "ok"
        /\ cr[d].outcome = "ok"
        /\ "debug" \in DOMAIN cr[c].spec /\ cr[c].spec["debug"]
        /\ "debug" \in DOMAIN cr[d].spec /\ ~cr[d].spec["debug"]
        /\ POD_DEBUG_LABEL
              \in DOMAIN pods[<<cr[c].namespace, cr[c].name>>].labels
        /\ POD_DEBUG_LABEL
              \notin DOMAIN pods[<<cr[d].namespace, cr[d].name>>].labels

-----------------------------------------------------------------------------
\* the tag of an image reference [registry[:port]/]name[:tag]: what follows
\* the last colon, unless that is part of the path; <<>> for no tag
ImageTag(image) ==
    LET parts == Split(image, ":")
        last  == parts[Len(parts)]
    IN IF Len(parts) > 1 /\ "/" \notin { last[i] : i \in 1..Len(last) }
       THEN last
       ELSE <<>>

\* C14: the pull policy of every Pod create makes is Always when its
\* image's tag is latest or stable (in any case of letters, as line 128
\* compares) or when the image has no tag, and IfNotPresent for every
\* other tag.
C14_PullPolicyByTag ==
    \A key \in DOMAIN pods :
        pods[key].imagePullPolicy =
            IF ImageTag(pods[key].image) = <<>>
                  \/ Lower(ImageTag(pods[key].image)) \in {Latest, Stable}
            THEN "Always"
            ELSE "IfNotPresent"

\* the same for the images without a registry port
PullPolicyByTagWithoutPort ==
    \A key \in DOMAIN pods :
        (LET parts == Split(pods[key].image, ":")
         IN \/ Len(parts) = 1
            \/ Len(parts) = 2 /\ ImageTag(pods[key].image) = parts[2])
        => pods[key].imagePullPolicy =
              IF ImageTag(pods[key].image) = <<>>
                    \/ Lower(ImageTag(pods[key].image)) \in {Latest, Stable}
              THEN "Always"
              ELSE "IfNotPresent"

-----------------------------------------------------------------------------
\* the Pods this step removes, and the Pods whose ConfigMap it removes
PodsRemoved == DOMAIN pods \ DOMAIN pods'

ConfigMapsRemovedOf ==
    { key \in DOMAIN pods :
        <<key[1], "nf-config-" \o key[2]>> \in DOMAIN cms \ DOMAIN cms' }

\* C15: whatever the interleaving, a job deleted and created anew during
\* the sleep included, a delete call of job_event removes a Pod only when
\* the Pod's phase in the store is Succeeded, Failed or Completed, and
\* never the ConfigMap of a Pod that is Pending or Running.
C15_DeleteOnlyTerminal ==
    [][ (\E h \in Handlers : JobEventStep(h))
        => /\ \A key \in PodsRemoved : pods[key].phase \in TerminalPhases
           /\ \A key \in ConfigMapsRemovedOf :
                 pods[key].phase \in TerminalPhases ]_vars

\* the same for a job_event run whose Pod is the only one its name ever had
OnlyPodOfItsName(key) ==
    Cardinality(Created("Pod", key[1], key[2])) <= 1

DeleteOnlyTerminalUnlessRecreated ==
    [][ (\E h \in Handlers : JobEventStep(h))
        => /\ \A key \in PodsRemoved :
                 OnlyPodOfItsName(key) => pods[key].phase \in TerminalPhases
           /\ \A key \in ConfigMapsRemovedOf :
                 OnlyPodOfItsName(key) => pods[key].phase \in TerminalPhases
       ]_vars

-----------------------------------------------------------------------------
\* C16: a job_event run issues no delete call before its sleep of
\* _POD_PRE_DELETE_DELAY_S seconds has returned, and issues the Pod delete
\* call before the ConfigMap delete call.
C16_SleepThenPodThenConfigMap ==
    \A h \in Handlers :
        /\ je[h].pc \in {"idle", "queued", "sleep"} => je[h].calls = <<>>
        /\ je[h].calls # <<>>
             => /\ je[h].slept = _POD_PRE_DELETE_DELAY_S
                /\ je[h].slept > 0
                /\ je[h].calls[1].kind = "Pod"
                /\ Len(je[h].calls) <= 2
                /\ Len(je[h].calls) = 2 => je[h].calls[2].kind = "ConfigMap"
        /\ je[h].pc = "delete_cm" => Len(je[h].calls) = 1
        /\ je[h].pc = "delete_pod" =>
              je[h].calls = <<>> /\ je[h].slept = _POD_PRE_DELETE_DELAY_S

\* a run has slept and issued its Pod delete call, and not yet the other
C16_Witness ==
    \E h \in Handlers :
        /\ je[h].pc = "delete_cm"
        /\ je[h].slept = _POD_PRE_DELETE_DELAY_S
        /\ Len(je[h].calls) = 1
        /\ je[h].calls[1].kind = "Pod"
        /\ je[h].calls[1].status = 200

-----------------------------------------------------------------------------
\* C17: every delete call of job_event is for a Pod that create made for
\* some job, or for that Pod's ConfigMap; a Pod that create did not make
\* is never removed by job_event; and job_event returns normally for every
\* event it is handed.
C17_OnlyManagedPods ==
    /\ [](\A h \in Handlers :
            /\ \A i \in 1..Len(je[h].calls) :
                  Created(je[h].calls[i].kind, je[h].calls[i].namespace,
                          je[h].calls[i].name) # {}
            /\ Returned(h) => je[h].outcome = "ok")
    /\ [][ (\E h \in Handlers : JobEventStep(h))
           => \A key \in PodsRemoved : pods[key].owner # "none" ]_vars

-----------------------------------------------------------------------------
\* the object at key is the same before and after the step
Untouched(store, next, key) ==
    /\ key \in DOMAIN store <=> key \in DOMAIN next
    /\ key \in DOMAIN store => next[key] = store[key]

\* the keys a job_event run is for: the Pod of its event and the ConfigMap
\* named after that Pod's instance-id label
OwnPod(h) == { EventKey(h) }
OwnConfigMap(h) ==
    IF POD_INSTANCE_LABEL \in DOMAIN je[h].event.labels
    THEN { <<je[h].event.namespace,
             "nf-config-" \o je[h].event.labels[POD_INSTANCE_LABEL]>> }
    ELSE {}

\* C18: whatever runs at the same time, a job_event run for Pod A calls
\* delete only for the Pod named A and for the ConfigMap nf-config-<A's
\* instance-id>, and a create run for job A calls create only for
\* nf-config-A and for A; and no step of a run changes a Pod or ConfigMap
\* of another name, so what becomes of B's objects does not depend on the
\* runs for A.
C18_RunsTouchOnlyTheirOwn ==
    /\ [](\A h \in Handlers : \A i \in 1..Len(je[h].calls) :
            LET call == je[h].calls[i] IN
            /\ call.op = "delete"
            /\ \/ call.kind = "Pod" /\ <<call.namespace, call.name>> \in OwnPod(h)
               \/ /\ call.kind = "ConfigMap"
                  /\ <<call.namespace, call.name>> \in OwnConfigMap(h))
    /\ [](\A c \in Creators : \A i \in 1..Len(cr[c].calls) :
            LET call == cr[c].calls[i] IN
            /\ call.op = "create"
            /\ call.namespace = cr[c].namespace
            /\ \/ call.kind = "Pod" /\ call.name = cr[c].name
               \/ /\ call.kind = "ConfigMap"
                  /\ call.name = "nf-config-" \o cr[c].name)
    /\ [][ \A h \in Handlers : JobEventStep(h) =>
             IF Delivered(h)
             THEN /\ \A key \in PodKeys \ OwnPod(h) : Untouched(pods, pods', key)
                  /\ \A key \in ConfigMapKeys \ OwnConfigMap(h) :
                        Untouched(cms, cms', key)
             ELSE UNCHANGED <<pods, cms>> ]_vars
    /\ [][ \A c \in Creators : CreateStep(c) =>
             IF cr[c].pc # "idle"
             THEN /\ \A key \in PodKeys \ {<<cr[c].namespace, cr[c].name>>} :
                        Untouched(pods, pods', key)
                  /\ \A key \in ConfigMapKeys
                               \ {<<cr[c].namespace, "nf-config-" \o cr[c].name>>} :
                        Untouched(cms, cms', key)
             ELSE UNCHANGED <<pods, cms>> ]_vars

\* both runs have deleted the Pod of their event, each of another name, and
\* both Pods were made by create runs, while neither run has ended
C18_Witness ==
    \E g, h \in Handlers :
        /\ g # h
        /\ je[g].pc = "delete_cm" /\ je[h].pc = "delete_cm"
        /\ EventKey(g) # EventKey(h)
        /\ je[g].calls[1].status = 200 /\ je[h].calls[1].status = 200
        /\ Created("Pod", je[g].event.namespace, je[g].event.name) # {}
        /\ Created("Pod", je[h].event.namespace, je[h].event.name) # {}

-----------------------------------------------------------------------------
\* C19: a create run for a job that has every mandatory field but a
\* command that shlex cannot split ends with a permanent failure and
\* without a call to the store; and no create run, whatever the job, ends
\* with a failure that is tried again.
C19_UnsplittablePermanent ==
    \A c \in Creators :
        cr[c].pc = "returned" =>
            /\ cr[c].outcome # "raised"
            /\ (~MissingMandatory(cr[c])
                /\ ShlexSplit(cr[c].spec["command"]).error # "")
                  => cr[c].outcome = "permanent" /\ cr[c].calls = <<>>

-----------------------------------------------------------------------------
\* the invocation was in its sleep when the process was killed
LostInSleep(h) == je[h].pc = "lost" /\ je[h].outcome = "sleep"

\* a later event for the same Pod, MODIFIED and in a terminal phase, has
\* been delivered
FurtherNotified(h) ==
    \E g \in Handlers :
        /\ g > h
        /\ Delivered(g)
        /\ EventKey(g) = EventKey(h)
        /\ Acting(je[g].event)

StaysIn(store, next, key) == key \in DOMAIN store => key \in DOMAIN next

\* no invocation calls delete more than once for the Pod and once for the
\* ConfigMap
OneAttempt ==
    \A h \in Handlers :
        /\ Len(je[h].calls) <= 2
        /\ \A i, j \in 1..Len(je[h].calls) :
              je[h].calls[i].kind = je[h].calls[j].kind => i = j

\* C20: an invocation of job_event that is in its sleep when the process
\* is killed calls no delete, and from then on the Pod and its ConfigMap
\* stay in the store unless a further MODIFIED event for that Pod in a
\* terminal phase is delivered; and no invocation makes more than one
\* cleanup attempt.
C20_LostCleanupStaysLost ==
    /\ [](\A h \in Handlers : LostInSleep(h) => je[h].calls = <<>>)
    /\ [](OneAttempt)
    /\ [][ \A h \in Handlers :
             (LostInSleep(h)' /\ ~FurtherNotified(h))
                => /\ StaysIn(pods, pods', EventKey(h))
                   /\ \A key \in OwnConfigMap(h) : StaysIn(cms, cms', key) ]_vars

\* C20 as amended: ... unless a further MODIFIED event for that Pod in a
\* terminal phase is delivered, or the job that owns them has been deleted
\* (the garbage collector then removes them).
C20_LostUnlessNotifiedOrJobDeleted ==
    /\ [](\A h \in Handlers : LostInSleep(h) => je[h].calls = <<>>)
    /\ [](OneAttempt)
    /\ [][ \A h \in Handlers :
             (LostInSleep(h)' /\ ~FurtherNotified(h))
                => /\ \/ StaysIn(pods, pods', EventKey(h))
                      \/ pods[EventKey(h)].owner = "gone"
                   /\ \A key \in OwnConfigMap(h) :
                         \/ StaysIn(cms, cms', key)
                         \/ cms[key].owner = "gone" ]_vars

\* an invocation was lost in its sleep, the Pod of its event and the
\* ConfigMap are still in the store, and a later ADDED event for the Pod
\* has been handled and has changed nothing
C20_Witness ==
    \E g, h \in Handlers :
        /\ h < g
        /\ LostInSleep(h)
        /\ Returned(g)
        /\ EventKey(g) = EventKey(h)
        /\ je[g].event.type = "ADDED"
        /\ je[g].event.phase \in TerminalPhases
        /\ je[g].calls = <<>>
        /\ EventKey(h) \in DOMAIN pods
        /\ \A key \in OwnConfigMap(h) : key \in DOMAIN cms

====
